---- MODULE Spec2Model ----
(***************************************************************************)
(* PrinterService (src/src/PrinterService.ts, lines 15-300): the           *)
(* connection manager, the event dispatcher and the request correlator of  *)
(* the print-setu client, as a state machine.                              *)
(*                                                                         *)
(* One step of the machine is one task of the JavaScript event loop (a     *)
(* call made by the application, a transport event, a timer) together with *)
(* the promise continuations that task makes runnable.  The one            *)
(* continuation the application can get in front of - the resumption of    *)
(* send() after connect() returned an already resolved promise to a        *)
(* request method - is a step of its own (SendNow).                        *)
(***************************************************************************)
EXTENDS Integers, Sequences, FiniteSets, TLC

\* ------------------------------------------------------------------ bounds
MaxTransports == 3        \* transports (new WebSocket) the service may create
MaxCalls == 2             \* invocations of public request methods
MaxLoneCalls == 1         \* of them, in the specifications with every other action
MaxConnectCalls == 1      \* invocations of connect() by the application
MaxConfigured == 3        \* largest maxReconnectAttempts tried in the config
MaxHandlers == 2          \* handler functions the application registers with on()
MaxClosures == 2          \* calls of on() for one handler and type

\* --------------------------------------------------------------- constants
DEFAULT_MAX_RECONNECT_ATTEMPTS == 5

Undefined == "undefined"
NoSocket == 0             \* this.socket === null
NoPromise == 0            \* this.connectionPromise === null; also "resolved now"

Attempts == 1..MaxTransports
CallIds == 1..MaxCalls
LoneCallIds == 1..MaxLoneCalls
CallerIds == 1..MaxConnectCalls
HandlerIds == 1..MaxHandlers

VARIABLES
  config,             \* the constructor's argument
  socket,             \* this.socket: a transport or NoSocket
  connectionPromise,  \* this.connectionPromise: an attempt or NoPromise
  reconnectAttempts,  \* this.reconnectAttempts
  messageHandlers,    \* this.messageHandlers: set of <<type, handler>>
  ws,                 \* readyState of every transport created so far
  promise,            \* state of the promise of every attempt
  grace,              \* grace[t]: the 100 ms timer of attempt t is armed
  authWait,           \* authWait[t]: the promise the AUTH send of t awaits
  reconnectTimers,    \* armed reconnect timers
  callers,            \* application calls of connect()
  calls,              \* application calls of request methods
  explicitlyClosed,   \* history: disconnect() was the application's last call
  stale,              \* history: registrations a disconnect() wiped, not made again
  fired,              \* history: application handlers run since the last disconnect()
  sentFrames,         \* history: the types of the frames sent on each transport
                      \* that has not closed
  delivery,           \* history: the last frame that arrived while the application
                      \* had handlers registered, and how often it ran each
  subs                \* history: the closures on() returned for each handler of
                      \* the application: those of its current registration, and
                      \* whether one of an earlier registration exists

vars == <<config, socket, connectionPromise, reconnectAttempts, messageHandlers,
          ws, promise, grace, authWait, reconnectTimers, callers, calls,
          explicitlyClosed, stale, fired, sentFrames, delivery, subs>>

\* ------------------------------------------------------------ constructor
\* maxReconnectAttempts in the config: omitted, or a number
Omitted == [given |-> FALSE, n |-> 0]
ConfigValues == {Omitted} \cup {[given |-> TRUE, n |-> i] : i \in 0..MaxConfigured}

\* v || d (undefined and 0 are both falsy)
OrDefault(v, d) == IF ~v.given \/ v.n = 0 THEN d ELSE v.n

maxReconnectAttempts == OrDefault(config.maxReconnectAttempts, DEFAULT_MAX_RECONNECT_ATTEMPTS)

\* --------------------------------------------------------------- helpers
\* this.socket?.readyState === WebSocket.OPEN
SocketOpen(sock, wsf) == sock # NoSocket /\ wsf[sock] = "open"

isConnected == SocketOpen(socket, ws)

Unused(prf) == {n \in Attempts : prf[n] = "none"}
NextAttempt(prf) == CHOOSE n \in Unused(prf) : \A m \in Unused(prf) : n <= m

\* connect() can run: the model has a transport left when it needs one
CanConnect(sock, cp, wsf, prf) ==
  SocketOpen(sock, wsf) \/ cp # NoPromise \/ Unused(prf) # {}

\* a connect() without the test of readyState
connectUnlessPending(sock, cp, wsf, prf) ==
  IF cp # NoPromise \/ Unused(prf) = {}
  THEN [socket |-> sock, connectionPromise |-> cp, ws |-> wsf, promise |-> prf,
        ret |-> cp]
  ELSE LET n == NextAttempt(prf) IN
       [socket |-> n, connectionPromise |-> n,
        ws |-> [wsf EXCEPT ![n] = "connecting"],
        promise |-> [prf EXCEPT ![n] = "pending"], ret |-> n]

\* connect(): what it leaves in the fields, and the promise it returns
\* (ret = NoPromise: a promise that is already resolved)
connect(sock, cp, wsf, prf) ==
  IF SocketOpen(sock, wsf)
  THEN [socket |-> sock, connectionPromise |-> cp, ws |-> wsf, promise |-> prf,
        ret |-> NoPromise]
  ELSE IF cp # NoPromise
  THEN [socket |-> sock, connectionPromise |-> cp, ws |-> wsf, promise |-> prf,
        ret |-> cp]
  ELSE LET n == NextAttempt(prf) IN
       IF config.urlOk
       THEN [socket |-> n, connectionPromise |-> n,
             ws |-> [wsf EXCEPT ![n] = "connecting"],
             promise |-> [prf EXCEPT ![n] = "pending"], ret |-> n]
       \* new WebSocket throws: the catch rejects, and the assignment that
       \* follows the executor stores the rejected promise in the field
       ELSE [socket |-> sock, connectionPromise |-> n, ws |-> wsf,
             promise |-> [prf EXCEPT ![n] = "rejected"], ret |-> n]

\* socket.close()
CloseState(st) ==
  CASE st = "connecting" -> "aborting"   \* fails the handshake: error, then close
    [] st = "open" -> "closing"
    [] OTHER -> st

\* a disconnect() that closes the transport and keeps the handle
disconnectKeepsHandle(sock, wsf, reg) ==
  [socket |-> sock,
   ws |-> IF sock # NoSocket THEN [wsf EXCEPT ![sock] = CloseState(@)] ELSE wsf,
   messageHandlers |-> {}]

\* a disconnect() that closes the transport and keeps the handlers
disconnectKeepsRegistry(sock, wsf, reg) ==
  [socket |-> NoSocket,
   ws |-> IF sock # NoSocket THEN [wsf EXCEPT ![sock] = CloseState(@)] ELSE wsf,
   messageHandlers |-> reg]

\* disconnect(): the fields it leaves
disconnect(sock, wsf, reg) ==
  [socket |-> NoSocket,
   ws |-> IF sock # NoSocket THEN [wsf EXCEPT ![sock] = CloseState(@)] ELSE wsf,
   messageHandlers |-> {}]

\* The attempts rejected because those of R were: the AUTH send of t awaited
\* one of them, and its .catch(reject) rejects the promise of t
RECURSIVE RejectClosure(_, _, _)
RejectClosure(R, prf, aw) ==
  LET more == {t \in Attempts : aw[t] \in R /\ prf[t] = "pending"} \ R
  IN IF more = {} THEN R ELSE RejectClosure(R \cup more, prf, aw)

\* resolve() or reject() of the promise of attempt a (how = "none": neither),
\* with the sends of AUTH that this resumes
Settle(a, how, sock, wsf, prf, aw) ==
  LET live == a # NoPromise /\ prf[a] = "pending"
      res == IF live /\ how = "resolved" THEN {a} ELSE {}
      open == SocketOpen(sock, wsf)
      authOk == {t \in Attempts : aw[t] \in res /\ open}
      authBad == {t \in Attempts : aw[t] \in res /\ ~open /\ prf[t] = "pending"}
      rej0 == (IF live /\ how = "rejected" THEN {a} ELSE {}) \cup authBad
      rej == RejectClosure(rej0, prf, aw)
  IN [resolved |-> res, rejected |-> rej, authSent |-> authOk, open |-> open,
      promise |-> [x \in Attempts |->
                     IF x \in res THEN "resolved"
                     ELSE IF x \in rej THEN "rejected" ELSE prf[x]],
      authWait |-> [t \in Attempts |->
                     IF aw[t] \in (res \cup rej) THEN NoPromise ELSE aw[t]]]

\* the callers of connect() that await a promise settled by st
CallersAfter(cs, st) ==
  [k \in CallerIds |->
     IF cs[k].st = "waiting" /\ cs[k].att \in st.resolved
     THEN [st |-> "resolved", att |-> NoPromise]
     ELSE IF cs[k].st = "waiting" /\ cs[k].att \in st.rejected
     THEN [st |-> "rejected", att |-> NoPromise]
     ELSE cs[k]]

\* ------------------------------------------------------ request correlator
Methods == {"scanPrinters", "connectPrinter", "disconnectPrinter", "print",
            "ping", "getState"}

\* the first argument each request method gives waitForResponse
ResponseType(m) ==
  CASE m = "scanPrinters" -> "PRINTERS_FOUND"
    [] m = "connectPrinter" -> "PRINTER_CONNECTED"
    [] m = "disconnectPrinter" -> "PRINTER_DISCONNECTED"
    [] m = "print" -> "PRINT_SUCCESS"
    [] m = "ping" -> "PONG"
    [] m = "getState" -> "STATE_RESPONSE"

\* the second argument (ping gives undefined)
ErrorType(m) ==
  CASE m = "scanPrinters" -> "SCAN_ERROR"
    [] m = "connectPrinter" -> "PRINTER_CONNECT_ERROR"
    [] m = "disconnectPrinter" -> "PRINTER_DISCONNECT_ERROR"
    [] m = "print" -> "PRINT_ERROR"
    [] m = "ping" -> Undefined
    [] m = "getState" -> "STATE_ERROR"

\* the type of the frame each request method gives send()
RequestType(m) ==
  CASE m = "scanPrinters" -> "SEARCH_USB_PRINTERS"
    [] m = "connectPrinter" -> "CONNECT_PRINTER"
    [] m = "disconnectPrinter" -> "DISCONNECT_PRINTER"
    [] m = "print" -> "PRINT_DATA"
    [] m = "ping" -> "PING"
    [] m = "getState" -> "GET_STATE"

\* the request methods the application calls in the model: one with the
\* printers post-processing, one that returns the payload, one without error type
Called == {"scanPrinters", "print", "ping"}

\* the empty string, and what `if (v)` and `v || w` take as true
Empty == ""
Truthy(v) == v \notin {Undefined, Empty}

\* inbound messages {type, payload?, error?}
MsgTypes == {ResponseType(m) : m \in Called}
            \cup ({ErrorType(m) : m \in Called} \ {Undefined}) \cup {"OTHER"}
Payloads == {Undefined, "p1", "p2"}       \* p2 alone has a message field
ErrorFields == {Undefined, "e1"}
Messages == [type : MsgTypes, payload : Payloads, error : ErrorFields]
\* event.data: text that JSON.parse accepts (giving data), or that it rejects
Garbage == [parses |-> FALSE, data |-> [type |-> "OTHER", payload |-> Undefined, error |-> Undefined]]
Frames == {[parses |-> TRUE, data |-> m] : m \in Messages} \cup {Garbage}
\* frames cut short in transit: data is the message the sender serialised
Truncated ==
  {[parses |-> FALSE, data |-> [type |-> type, payload |-> Undefined, error |-> Undefined]] :
     type \in MsgTypes}
\* frames whose message has an empty string as error field or as
\* payload.message
FalsyFrames ==
  {[parses |-> TRUE, data |-> [type |-> type, payload |-> p, error |-> e]] :
     type \in MsgTypes, p \in {Undefined, "p3"}, e \in {Undefined, Empty, "e1"}}
\* frames whose message gives '*' as its type
StarFrames ==
  {[parses |-> TRUE, data |-> [type |-> "*", payload |-> p, error |-> e]] :
     p \in Payloads, e \in ErrorFields}

\* payload?.message (p3 has an empty one)
PayloadMessage(p) ==
  IF p = "p2" THEN "m2" ELSE IF p = "p3" THEN Empty ELSE Undefined
PayloadPrinters(p) == IF p = "p1" THEN "printers1" ELSE Undefined

TimeoutError(type) == "Request timeout: No response received for " \o type
NotConnectedError == "WebSocket is not connected"
TransportError == "transport error"
TypeError == "TypeError"

SuccessHandler(c, m) == <<ResponseType(m), "succ", c>>
ErrorHandler(c, m) == <<ErrorType(m), "err", c>>

\* on(type, handler) and the closure it returns
on(reg, h) == reg \cup {h}
unsubscribe(reg, h) == reg \ {h}

\* cleanupSuccess(); cleanupError()
Cleanup(reg, c, m) == unsubscribe(unsubscribe(reg, SuccessHandler(c, m)), ErrorHandler(c, m))

IdleCall ==
  [pc |-> "idle", method |-> Undefined, await |-> NoPromise, corr |-> "none",
   val |-> Undefined, timer |-> FALSE, res |-> Undefined,
   seenS |-> FALSE, seenE |-> FALSE, disc |-> FALSE, settles |-> 0]

\* waitForResponse(responseType, errorType): the timer and the listeners
waitForResponse(reg, c, m) ==
  LET r1 == on(reg, SuccessHandler(c, m))
  IN IF ErrorType(m) # Undefined THEN on(r1, ErrorHandler(c, m)) ELSE r1

\* resolve(v) / reject(v) of the correlation's promise: the first one wins
\* (of the history, a settled correlation keeps seenE alone)
SettleCorr(call, st, v) ==
  IF call.corr = "pending"
  THEN [call EXCEPT !.corr = st, !.val = v, !.settles = @ + 1,
                    !.seenS = FALSE, !.disc = FALSE]
  ELSE [call EXCEPT !.settles = @ + 1]

\* the request method after `await responsePromise`
FinishCall(call) ==
  IF call.corr = "rejected"
  THEN [call EXCEPT !.pc = "rejected", !.res = call.val]
  ELSE CASE call.method = "scanPrinters" ->
              IF call.val = Undefined             \* response.printers throws
              THEN [call EXCEPT !.pc = "rejected", !.res = TypeError]
              ELSE [call EXCEPT !.pc = "resolved",
                                !.res = IF PayloadPrinters(call.val) = Undefined
                                        THEN "[]" ELSE PayloadPrinters(call.val)]
         [] call.method = "ping" -> [call EXCEPT !.pc = "resolved", !.res = "true"]
         [] OTHER -> [call EXCEPT !.pc = "resolved", !.res = call.val]

\* the request method once send() has returned
AwaitResponse(call) ==
  IF call.corr = "pending" THEN [call EXCEPT !.pc = "awaiting"] ELSE FinishCall(call)

\* a send() without the test of readyState
ResumeSendUnchecked(call, how, open) ==
  IF how = "rejected"
  THEN [call EXCEPT !.pc = "rejected", !.res = TransportError, !.await = NoPromise]
  ELSE AwaitResponse([call EXCEPT !.await = NoPromise])

\* send() after `await this.connect()`
ResumeSend(call, how, open) ==
  IF how = "rejected"
  THEN [call EXCEPT !.pc = "rejected", !.res = TransportError, !.await = NoPromise]
  ELSE IF open
  THEN AwaitResponse([call EXCEPT !.await = NoPromise])
  ELSE [call EXCEPT !.pc = "rejected", !.res = NotConnectedError, !.await = NoPromise]

\* the request methods that await a promise settled by st
CallsAfter(cl, st) ==
  [c \in CallIds |->
     IF cl[c].pc = "sending" /\ cl[c].await \in st.resolved
     THEN ResumeSend(cl[c], "resolved", st.open)
     ELSE IF cl[c].pc = "sending" /\ cl[c].await \in st.rejected
     THEN ResumeSend(cl[c], "rejected", st.open)
     ELSE cl[c]]

\* a success listener that forgets clearTimeout
SuccessListenerKeepsTimer(call, msg) ==
  LET c2 == IF Truthy(msg.error)
            THEN SettleCorr(call, "rejected", msg.error)
            ELSE SettleCorr(call, "resolved", msg.payload)
  IN IF c2.pc = "awaiting" THEN FinishCall(c2) ELSE c2

\* a success listener that tests the error field the wrong way round
SuccessListenerInverted(call, msg) ==
  LET c1 == [call EXCEPT !.timer = FALSE]
      c2 == IF msg.error = Undefined
            THEN SettleCorr(c1, "rejected", msg.error)
            ELSE SettleCorr(c1, "resolved", msg.payload)
  IN IF c2.pc = "awaiting" THEN FinishCall(c2) ELSE c2

\* the success listener of waitForResponse, run for message msg
SuccessListener(call, msg) ==
  LET c1 == [call EXCEPT !.timer = FALSE]
      c2 == IF Truthy(msg.error)
            THEN SettleCorr(c1, "rejected", msg.error)
            ELSE SettleCorr(c1, "resolved", msg.payload)
  IN IF c2.pc = "awaiting" THEN FinishCall(c2) ELSE c2

\* an error listener that forgets clearTimeout
ErrorListenerKeepsTimer(call, msg) ==
  LET why == IF Truthy(PayloadMessage(msg.payload)) THEN PayloadMessage(msg.payload)
             ELSE IF Truthy(msg.error) THEN msg.error
             ELSE "Operation failed"
      c2 == SettleCorr(call, "rejected", why)
  IN IF c2.pc = "awaiting" THEN FinishCall(c2) ELSE c2

\* the error listener of waitForResponse, run for message msg
ErrorListener(call, msg) ==
  LET c1 == [call EXCEPT !.timer = FALSE]
      why == IF Truthy(PayloadMessage(msg.payload)) THEN PayloadMessage(msg.payload)
             ELSE IF Truthy(msg.error) THEN msg.error
             ELSE "Operation failed"
      c2 == SettleCorr(c1, "rejected", why)
  IN IF c2.pc = "awaiting" THEN FinishCall(c2) ELSE c2

\* the timer callback of waitForResponse
TimeoutCallback(call) ==
  LET c2 == SettleCorr([call EXCEPT !.timer = FALSE], "rejected",
                       TimeoutError(ResponseType(call.method)))
  IN IF c2.pc = "awaiting" THEN FinishCall(c2) ELSE c2

\* handleMessage: the handlers registered under the message's type, and
\* those registered under '*' (the listeners of waitForResponse that run in
\* between remove themselves from other types only)
Invoked(reg, msg) == {h \in reg : h[1] = msg.type}
InvokedAll(reg, msg) == {h \in reg : h[1] = "*"}

\* a handler of the application
UserTypes == {"OTHER", "*"}
UserHandler(type, h) == <<type, "user", h>>
UserHandlers == {UserHandler(type, h) : type \in UserTypes, h \in HandlerIds}
Users(reg) == {h \in reg : h[2] = "user"}

\* the handlers of the application with an even number throw when they run
Throws(h) == h[2] = "user" /\ h[3] % 2 = 0

\* the handlers of the application that return normally
QuietHandlerIds == {h \in HandlerIds : ~Throws(UserHandler("*", h))}

\* how often handleMessage runs handler h for msg: forEach over the handlers
\* of the type, then over those of '*' unless a handler threw before
Runs(reg, msg, h) ==
  (IF h \in Invoked(reg, msg) THEN 1 ELSE 0)
    + (IF h \in InvokedAll(reg, msg) /\ ~\E g \in Invoked(reg, msg) : Throws(g)
       THEN 1 ELSE 0)

\* a handler of the application, registered under `type`, that calls request
\* method m (as call c) when it runs and that call has not been made
NestedHandler(type, c, m) == <<type, "nested", <<c, m>>>>
Nested(reg) == {u \in reg : u[2] = "nested"}

\* the handlers among them that handleMessage runs for msg and that call
Calling(cl, reg, msg) ==
  {u \in Nested(reg) : u[1] \in {msg.type, "*"} /\ cl[u[3][1]].pc = "idle"}

\* the registry whose handlers forEach runs for msg when handler u, run for
\* msg, has grown the registry reg by the listeners of its waitForResponse:
\* forEach visits the entries added to the Set it iterates, and the Set of
\* msg.type has been iterated when the handlers of '*' run
Visited(reg, grown, u, msg) ==
  IF u[1] = msg.type THEN grown ELSE reg

\* no closure returned yet
NoSubs ==
  [cur |-> [h \in UserHandlers |-> 0], old |-> [h \in UserHandlers |-> FALSE]]
Closures == {"current", "old"}

NoDelivery == [type |-> Undefined, runs |-> [h \in UserHandlers |-> 0]]
Unparsed == "unparsed"

\* what socket.onmessage did with frame f, as far as the application's
\* handlers see it
Delivered(reg, f) ==
  IF f.parses
  THEN [type |-> f.data.type, runs |-> [h \in UserHandlers |-> Runs(reg, f.data, h)]]
  ELSE [type |-> Unparsed, runs |-> [h \in UserHandlers |-> 0]]

\* a handleMessage that runs one listener of the message's type, not all
DispatchFirst(cl, reg, msg) ==
  [c \in CallIds |->
     LET call == cl[c]
         first == \A h \in Invoked(reg, msg) : h[2] \in {"succ", "err"} => c <= h[3]
         noted == IF call.corr = "pending"
                  THEN [call EXCEPT
                          !.seenS = @ \/ msg.type = ResponseType(call.method),
                          !.seenE = @ \/ msg.type = ErrorType(call.method)]
                  ELSE call
     IN IF call.method = Undefined THEN call
        ELSE IF first /\ SuccessHandler(c, call.method) \in Invoked(reg, msg)
        THEN SuccessListener(noted, msg)
        ELSE IF first /\ ErrorHandler(c, call.method) \in Invoked(reg, msg)
        THEN ErrorListener(noted, msg)
        ELSE noted]

\* the listeners handleMessage runs for msg, call by call
Dispatch(cl, reg, msg) ==
  [c \in CallIds |->
     LET call == cl[c]
         noted == IF call.corr = "pending"      \* history: what was dispatched
                  THEN [call EXCEPT
                          !.seenS = @ \/ msg.type = ResponseType(call.method),
                          !.seenE = @ \/ msg.type = ErrorType(call.method)]
                  ELSE call
     IN IF call.method = Undefined THEN call
        ELSE IF SuccessHandler(c, call.method) \in Invoked(reg, msg)
        THEN SuccessListener(noted, msg)
        ELSE IF ErrorHandler(c, call.method) \in Invoked(reg, msg)
        THEN ErrorListener(noted, msg)
        ELSE noted]

\* the registry once the listeners that ran have unsubscribed themselves
RegistryAfter(cl, reg, msg) ==
  reg \ {h \in reg : \E c \in CallIds :
           /\ cl[c].method # Undefined
           /\ {SuccessHandler(c, cl[c].method), ErrorHandler(c, cl[c].method)}
                \cap Invoked(reg, msg) # {}
           /\ h \in {SuccessHandler(c, cl[c].method), ErrorHandler(c, cl[c].method)}}

\* attemptReconnect(): the counter and the timers it leaves
attemptReconnect(n, timers) ==
  IF n < maxReconnectAttempts
  THEN [reconnectAttempts |-> n + 1, timers |-> timers + 1]
  ELSE [reconnectAttempts |-> n, timers |-> timers]

\* this.socket.send(...) for each of frames, on transport sock
Transmit(log, sock, frames) ==
  IF sock = NoSocket THEN log ELSE [log EXCEPT ![sock] = @ \cup frames]

\* the frames that the sends resumed by st put on this.socket
Transmitted(cl, st) ==
  IF ~st.open THEN {}
  ELSE (IF st.authSent # {} THEN {"AUTH"} ELSE {})
       \cup {RequestType(cl[c].method) :
               c \in {x \in CallIds : cl[x].pc = "sending" /\ cl[x].await \in st.resolved}}

\* a resumption of send() is queued behind the running application code
NoMicrotask == \A c \in CallIds : calls[c].pc # "sendNow"

\* -------------------------------------------------------------------- Init
IdleCaller == [st |-> "idle", att |-> NoPromise]

Configs == [maxReconnectAttempts : ConfigValues, urlOk : BOOLEAN]

\* the state after new PrinterService(cfg), for cfg in cfgs
InitWith(cfgs) ==
  /\ config \in cfgs
  /\ socket = NoSocket
  /\ connectionPromise = NoPromise
  /\ reconnectAttempts = 0
  /\ messageHandlers = {}
  /\ ws = [t \in Attempts |-> "none"]
  /\ promise = [t \in Attempts |-> "none"]
  /\ grace = [t \in Attempts |-> FALSE]
  /\ authWait = [t \in Attempts |-> NoPromise]
  /\ reconnectTimers = 0
  /\ callers = [k \in CallerIds |-> IdleCaller]
  /\ calls = [c \in CallIds |-> IdleCall]
  /\ explicitlyClosed = FALSE
  /\ stale = {}
  /\ fired = {}
  /\ sentFrames = [t \in Attempts |-> {}]
  /\ delivery = NoDelivery
  /\ subs = NoSubs

\* ----------------------------------------------------------------- actions
\* the application calls connect()
Connect(k) ==
  /\ callers[k].st = "idle"
  /\ CanConnect(socket, connectionPromise, ws, promise)
  /\ LET r == connect(socket, connectionPromise, ws, promise) IN
     /\ socket' = r.socket
     /\ connectionPromise' = r.connectionPromise
     /\ ws' = r.ws
     /\ promise' = r.promise
     /\ callers' = [callers EXCEPT ![k] =
          IF r.ret = NoPromise THEN [st |-> "resolved", att |-> NoPromise]
          ELSE IF r.promise[r.ret] = "pending" THEN [st |-> "waiting", att |-> r.ret]
          ELSE [st |-> r.promise[r.ret], att |-> NoPromise]]
  /\ explicitlyClosed' = FALSE
  /\ UNCHANGED <<config, reconnectAttempts, messageHandlers, grace, authWait,
                 reconnectTimers, calls, stale, fired, sentFrames, delivery, subs>>

\* the application calls disconnect()
Disconnect ==
  /\ LET r == disconnect(socket, ws, messageHandlers) IN
     /\ ws' = r.ws
     /\ socket' = r.socket
     /\ messageHandlers' = r.messageHandlers
  /\ calls' = [c \in CallIds |->
                 IF calls[c].corr = "pending" THEN [calls[c] EXCEPT !.disc = TRUE]
                 ELSE calls[c]]
  /\ explicitlyClosed' = TRUE
  /\ stale' = stale \cup {h \in messageHandlers : h[2] = "user"}
  /\ fired' = {}
  /\ delivery' = NoDelivery
  /\ subs' = [cur |-> [h \in UserHandlers |-> 0],
              old |-> [h \in UserHandlers |-> subs.old[h] \/ subs.cur[h] > 0]]
  /\ UNCHANGED sentFrames
  /\ UNCHANGED <<config, connectionPromise, reconnectAttempts, promise, grace,
                 authWait, reconnectTimers, callers>>

\* socket.onopen of transport t
Open(t) ==
  /\ NoMicrotask
  /\ ws[t] = "connecting"
  /\ LET ws1 == [ws EXCEPT ![t] = "open"] IN
     /\ CanConnect(socket, connectionPromise, ws1, promise)
     /\ LET r == connect(socket, connectionPromise, ws1, promise)   \* by send(AUTH)
            now == r.ret = NoPromise \/ r.promise[r.ret] = "resolved"
            sent == now /\ SocketOpen(r.socket, r.ws)
            failed == (now /\ ~sent) \/ (~now /\ r.promise[r.ret] = "rejected")
            aw == [authWait EXCEPT ![t] = IF ~now /\ ~failed THEN r.ret ELSE NoPromise]
            st == Settle(t, IF failed THEN "rejected" ELSE "none",
                         r.socket, r.ws, r.promise, aw)
        IN /\ socket' = r.socket
           /\ connectionPromise' = r.connectionPromise
           /\ ws' = r.ws
           /\ promise' = st.promise
           /\ authWait' = st.authWait
           /\ grace' = [x \in Attempts |-> grace[x] \/ (x = t /\ sent) \/ x \in st.authSent]
           /\ callers' = CallersAfter(callers, st)
           /\ calls' = CallsAfter(calls, st)
           /\ sentFrames' = Transmit(sentFrames, r.socket,
                                     (IF sent THEN {"AUTH"} ELSE {})
                                       \cup Transmitted(calls, st))
  /\ reconnectAttempts' = 0
  /\ UNCHANGED <<config, messageHandlers, reconnectTimers, explicitlyClosed, stale,
                 fired, delivery, subs>>

\* the 100 ms timer set once AUTH was sent for attempt t
GraceTimer(t) ==
  /\ NoMicrotask
  /\ grace[t]
  /\ LET st == Settle(t, "resolved", socket, ws, promise, authWait) IN
     /\ connectionPromise' = NoPromise
     /\ promise' = st.promise
     /\ authWait' = st.authWait
     /\ grace' = [x \in Attempts |-> (grace[x] /\ x # t) \/ x \in st.authSent]
     /\ callers' = CallersAfter(callers, st)
     /\ calls' = CallsAfter(calls, st)
     /\ sentFrames' = Transmit(sentFrames, socket, Transmitted(calls, st))
  /\ UNCHANGED <<config, socket, reconnectAttempts, messageHandlers, ws,
                 reconnectTimers, explicitlyClosed, stale, fired, delivery, subs>>

\* socket.onerror of transport t
Error(t) ==
  /\ NoMicrotask
  /\ ws[t] \in {"connecting", "open", "aborting"}
  /\ LET ws1 == [ws EXCEPT ![t] = "closing"]
         st == Settle(t, "rejected", socket, ws1, promise, authWait) IN
     /\ ws' = ws1
     /\ connectionPromise' = NoPromise
     /\ promise' = st.promise
     /\ authWait' = st.authWait
     /\ grace' = [x \in Attempts |-> grace[x] \/ x \in st.authSent]
     /\ callers' = CallersAfter(callers, st)
     /\ calls' = CallsAfter(calls, st)
     /\ sentFrames' = Transmit(sentFrames, socket, Transmitted(calls, st))
  /\ UNCHANGED <<config, socket, reconnectAttempts, messageHandlers,
                 reconnectTimers, explicitlyClosed, stale, fired, delivery, subs>>

\* an onclose that drops the handlers with the transport
CloseClearsRegistry(t) ==
  /\ NoMicrotask
  /\ ws[t] \in {"connecting", "open", "closing"}
  /\ ws' = [ws EXCEPT ![t] = "closed"]
  /\ connectionPromise' = NoPromise
  /\ LET a == attemptReconnect(reconnectAttempts, reconnectTimers) IN
     /\ reconnectAttempts' = a.reconnectAttempts
     /\ reconnectTimers' = a.timers
  /\ sentFrames' = [sentFrames EXCEPT ![t] = {}]
  /\ messageHandlers' = {}
  /\ UNCHANGED <<config, socket, promise, grace, authWait,
                 callers, calls, explicitlyClosed, stale, fired,
                 delivery, subs>>

\* socket.onclose of transport t
Close(t) ==
  /\ NoMicrotask
  /\ ws[t] \in {"connecting", "open", "closing"}
  /\ ws' = [ws EXCEPT ![t] = "closed"]
  /\ connectionPromise' = NoPromise
  /\ LET a == attemptReconnect(reconnectAttempts, reconnectTimers) IN
     /\ reconnectAttempts' = a.reconnectAttempts
     /\ reconnectTimers' = a.timers
  /\ sentFrames' = [sentFrames EXCEPT ![t] = {}]
  /\ UNCHANGED <<config, socket, messageHandlers, promise, grace, authWait,
                 callers, calls, explicitlyClosed, stale, fired,
                 delivery, subs>>

\* the timer set by attemptReconnect
ReconnectTimer ==
  /\ NoMicrotask
  /\ reconnectTimers > 0
  /\ CanConnect(socket, connectionPromise, ws, promise)
  /\ LET r == connect(socket, connectionPromise, ws, promise) IN
     /\ socket' = r.socket
     /\ connectionPromise' = r.connectionPromise
     /\ ws' = r.ws
     /\ promise' = r.promise
  /\ reconnectTimers' = reconnectTimers - 1
  /\ UNCHANGED <<config, reconnectAttempts, messageHandlers, grace, authWait,
                 callers, calls, explicitlyClosed, stale, fired, sentFrames,
                 delivery, subs>>

\* an onmessage that hands the text of every frame to handleMessage
onmessageUnparsed(cl, reg, f) ==
  [calls |-> Dispatch(cl, reg, f.data),
   messageHandlers |-> RegistryAfter(cl, reg, f.data)]

\* the body of socket.onmessage: the calls and the registry it leaves
onmessage(cl, reg, f) ==
  IF f.parses
  THEN [calls |-> Dispatch(cl, reg, f.data),
        messageHandlers |-> RegistryAfter(cl, reg, f.data)]
  ELSE [calls |-> cl, messageHandlers |-> reg]   \* JSON.parse throws: logged

\* socket.onmessage of transport t, for frame f
Message(t, f) ==
  /\ NoMicrotask
  /\ ws[t] = "open"
  /\ LET r == onmessage(calls, messageHandlers, f) IN
     /\ calls' = r.calls
     /\ messageHandlers' = r.messageHandlers
  /\ fired' = fired \cup {h \in Users(messageHandlers) :
                            Delivered(messageHandlers, f).runs[h] > 0}
  /\ delivery' = IF Users(messageHandlers) = {} THEN delivery
                 ELSE Delivered(messageHandlers, f)
  /\ subs' = subs
  /\ UNCHANGED <<config, socket, connectionPromise, reconnectAttempts, ws, promise,
                 grace, authWait, reconnectTimers, callers, explicitlyClosed, stale,
                 sentFrames>>

\* a request method that calls send() before waitForResponse
RequestSendsFirst(c, m) ==
  /\ calls[c].pc = "idle"
  /\ CanConnect(socket, connectionPromise, ws, promise)
  /\ LET r == connect(socket, connectionPromise, ws, promise)
         c1 == [IdleCall EXCEPT !.method = m, !.corr = "pending", !.timer = TRUE]
     IN
     /\ messageHandlers' = messageHandlers
     /\ socket' = r.socket
     /\ connectionPromise' = r.connectionPromise
     /\ ws' = r.ws
     /\ promise' = r.promise
     /\ calls' = [calls EXCEPT ![c] =
          IF r.ret = NoPromise \/ r.promise[r.ret] = "resolved"
          THEN [c1 EXCEPT !.pc = "sendNow"]
          ELSE IF r.promise[r.ret] = "pending"
          THEN [c1 EXCEPT !.pc = "sending", !.await = r.ret]
          ELSE ResumeSend(c1, "rejected", FALSE)]
  /\ explicitlyClosed' = FALSE
  /\ UNCHANGED <<config, reconnectAttempts, grace, authWait, reconnectTimers,
                 callers, stale, fired, sentFrames, delivery, subs>>

\* the application calls request method m
Request(c, m) ==
  /\ calls[c].pc = "idle"
  /\ CanConnect(socket, connectionPromise, ws, promise)
  /\ LET r == connect(socket, connectionPromise, ws, promise)     \* by send()
         c1 == [IdleCall EXCEPT !.method = m, !.corr = "pending", !.timer = TRUE]
     IN
     /\ messageHandlers' = waitForResponse(messageHandlers, c, m)
     /\ socket' = r.socket
     /\ connectionPromise' = r.connectionPromise
     /\ ws' = r.ws
     /\ promise' = r.promise
     /\ calls' = [calls EXCEPT ![c] =
          IF r.ret = NoPromise \/ r.promise[r.ret] = "resolved"
          THEN [c1 EXCEPT !.pc = "sendNow"]
          ELSE IF r.promise[r.ret] = "pending"
          THEN [c1 EXCEPT !.pc = "sending", !.await = r.ret]
          ELSE ResumeSend(c1, "rejected", FALSE)]
  /\ explicitlyClosed' = FALSE
  /\ UNCHANGED <<config, reconnectAttempts, grace, authWait, reconnectTimers,
                 callers, stale, fired, sentFrames, delivery, subs>>

\* send() of call c resumes after connect() returned a resolved promise
SendNow(c) ==
  /\ calls[c].pc = "sendNow"
  /\ calls' = [calls EXCEPT ![c] = ResumeSend(@, "resolved", isConnected)]
  /\ sentFrames' = IF isConnected
                   THEN Transmit(sentFrames, socket, {RequestType(calls[c].method)})
                   ELSE sentFrames
  /\ UNCHANGED <<config, socket, connectionPromise, reconnectAttempts,
                 messageHandlers, ws, promise, grace, authWait, reconnectTimers,
                 callers, explicitlyClosed, stale, fired, delivery, subs>>

\* the timer of the correlation of call c
Timeout(c) ==
  /\ NoMicrotask
  /\ calls[c].timer
  /\ calls' = [calls EXCEPT ![c] = TimeoutCallback(@)]
  /\ messageHandlers' = Cleanup(messageHandlers, c, calls[c].method)
  /\ UNCHANGED <<config, socket, connectionPromise, reconnectAttempts, ws, promise,
                 grace, authWait, reconnectTimers, callers, explicitlyClosed, stale,
                 fired, sentFrames, delivery, subs>>

\* the application calls on(type, h) (at most one of its handlers per type:
\* the order in which a Set runs its handlers is not modelled)
On(type, h) ==
  /\ \A g \in HandlerIds \ {h} : UserHandler(type, g) \notin messageHandlers
  /\ subs.cur[UserHandler(type, h)] < MaxClosures
  /\ messageHandlers' = on(messageHandlers, UserHandler(type, h))
  /\ stale' = stale \ {UserHandler(type, h)}
  /\ delivery' = NoDelivery
  /\ subs' = [subs EXCEPT !.cur[UserHandler(type, h)] = @ + 1]
  /\ UNCHANGED <<fired, sentFrames>>
  /\ UNCHANGED <<config, socket, connectionPromise, reconnectAttempts, ws, promise,
                 grace, authWait, reconnectTimers, callers, calls, explicitlyClosed>>

\* the application calls a closure that on(type, h) returned: one of the
\* current registration, or one of a registration that has ended
Off(type, h, which) ==
  /\ IF which = "current" THEN subs.cur[UserHandler(type, h)] > 0
                          ELSE subs.old[UserHandler(type, h)]
  /\ messageHandlers' = unsubscribe(messageHandlers, UserHandler(type, h))
  /\ delivery' = NoDelivery
  /\ subs' = LET u == UserHandler(type, h) IN
             IF u \in messageHandlers
             THEN [subs EXCEPT !.cur[u] = 0, !.old[u] = TRUE]
             ELSE subs
  /\ UNCHANGED <<config, socket, connectionPromise, reconnectAttempts, ws, promise,
                 grace, authWait, reconnectTimers, callers, calls, explicitlyClosed,
                 stale, fired, sentFrames>>

\* the application calls on(type, u), u being a handler that calls request
\* method m when it runs (one such handler in the registry)
OnNested(type, c, m) ==
  /\ Nested(messageHandlers) = {}
  /\ messageHandlers' = on(messageHandlers, NestedHandler(type, c, m))
  /\ UNCHANGED <<config, socket, connectionPromise, reconnectAttempts, ws, promise,
                 grace, authWait, reconnectTimers, callers, calls, explicitlyClosed,
                 stale, fired, sentFrames, delivery, subs>>

\* socket.onmessage of transport t, for a frame f whose message runs handler
\* u: u calls its request method (waitForResponse, then send() up to its
\* await) inside handleMessage, which then goes on
NestedMessage(t, f, u) ==
  /\ NoMicrotask
  /\ ws[t] = "open"
  /\ f.parses
  /\ u \in Calling(calls, messageHandlers, f.data)
  /\ CanConnect(socket, connectionPromise, ws, promise)
  /\ LET c == u[3][1]
         m == u[3][2]
         r == connect(socket, connectionPromise, ws, promise)     \* by send()
         c0 == [IdleCall EXCEPT !.method = m, !.corr = "pending", !.timer = TRUE]
         c1 == IF r.ret = NoPromise \/ r.promise[r.ret] = "resolved"
               THEN [c0 EXCEPT !.pc = "sendNow"]
               ELSE IF r.promise[r.ret] = "pending"
               THEN [c0 EXCEPT !.pc = "sending", !.await = r.ret]
               ELSE ResumeSend(c0, "rejected", FALSE)
         grown == waitForResponse(messageHandlers, c, m)
         seen == Visited(messageHandlers, grown, u, f.data)
         d == onmessage([calls EXCEPT ![c] = c1], seen, f)
     IN
     /\ calls' = d.calls
     /\ messageHandlers' = d.messageHandlers \cup (grown \ seen)
     /\ socket' = r.socket
     /\ connectionPromise' = r.connectionPromise
     /\ ws' = r.ws
     /\ promise' = r.promise
  /\ explicitlyClosed' = FALSE
  /\ UNCHANGED <<config, reconnectAttempts, grace, authWait, reconnectTimers,
                 callers, stale, fired, sentFrames, delivery, subs>>

\* the configuration of the runs that do not vary it: as many reconnects as
\* there are transports to make them with
Configured ==
  {c \in Configs : c.maxReconnectAttempts = [given |-> TRUE, n |-> MaxTransports - 1]}

Init == InitWith(Configured)

\* the frames whose message has a type that a call made so far waits for, or
\* has waited for (with no handler of the application, a message of any other
\* type and a frame that does not parse change nothing)
Awaited ==
  {f \in Frames : f.parses /\ \E c \in CallIds :
      calls[c].method # Undefined
        /\ f.data.type \in {ResponseType(calls[c].method), ErrorType(calls[c].method)}}

\* the whole service: connect(), disconnect(), one call of print, and
\* transports that open, fail, close and carry messages
Next ==
  \/ \E k \in CallerIds : Connect(k)
  \/ Disconnect
  \/ \E t \in Attempts : Open(t)
  \/ \E t \in Attempts : GraceTimer(t)
  \/ \E t \in Attempts : Error(t)
  \/ \E t \in Attempts : Close(t)
  \/ ReconnectTimer
  \/ \E t \in Attempts, f \in Awaited : Message(t, f)
  \/ \E c \in LoneCallIds : Request(c, "print")
  \/ \E c \in CallIds : SendNow(c)
  \/ \E c \in CallIds : Timeout(c)

Spec == Init /\ [][Next]_vars

\* concurrent calls of request methods over transports that open, fail and
\* carry messages
PairNext ==
  \/ \E t \in Attempts : Open(t)
  \/ \E t \in Attempts : GraceTimer(t)
  \/ \E t \in Attempts : Error(t)
  \/ \E t \in Attempts : Close(t)
  \/ \E t \in Attempts, f \in Frames : Message(t, f)
  \/ \E c \in CallIds, m \in Called : Request(c, m)
  \/ \E c \in CallIds : SendNow(c)
  \/ \E c \in CallIds : Timeout(c)

PairSpec == Init /\ [][PairNext]_vars

\* the dispatcher with handlers of the application, without request methods
DispatchNext ==
  \/ \E k \in CallerIds : Connect(k)
  \/ Disconnect
  \/ \E t \in Attempts : Open(t)
  \/ \E t \in Attempts : GraceTimer(t)
  \/ \E t \in Attempts : Error(t)
  \/ \E t \in Attempts : Close(t)
  \/ ReconnectTimer
  \/ \E t \in Attempts, f \in Frames : Message(t, f)
  \/ \E type \in UserTypes, h \in QuietHandlerIds :           \* not registered twice
       UserHandler(type, h) \notin messageHandlers /\ On(type, h)

DispatchSpec == Init /\ [][DispatchNext]_vars

\* one transport that stays open and the handlers of the application, some
\* of which throw
HandlerNext ==
  \/ \E k \in CallerIds : Connect(k)
  \/ \E t \in Attempts : Open(t)
  \/ \E t \in Attempts : GraceTimer(t)
  \/ \E t \in Attempts, f \in Frames \cup StarFrames : Message(t, f)
  \/ \E type \in UserTypes, h \in HandlerIds : On(type, h)
  \/ \E type \in UserTypes, h \in HandlerIds, which \in Closures : Off(type, h, which)

HandlerSpec == Init /\ [][HandlerNext]_vars

\* one transport that stays open, one request, the handlers of the
\* application, and frames that do not parse
UnparsedNext ==
  \/ \E k \in CallerIds : Connect(k)
  \/ \E t \in Attempts : Open(t)
  \/ \E t \in Attempts : GraceTimer(t)
  \/ \E t \in Attempts, f \in Frames \cup Truncated : Message(t, f)
  \/ \E type \in UserTypes, h \in QuietHandlerIds :           \* not registered twice
       UserHandler(type, h) \notin messageHandlers /\ On(type, h)
  \/ \E c \in LoneCallIds, m \in Called : Request(c, m)
  \/ \E c \in LoneCallIds : SendNow(c)
  \/ \E c \in LoneCallIds : Timeout(c)

UnparsedSpec == Init /\ [][UnparsedNext]_vars

\* one transport that stays open and one request, with messages whose
\* fields are empty strings
OutcomeNext ==
  \/ \E k \in CallerIds : Connect(k)
  \/ \E t \in Attempts : Open(t)
  \/ \E t \in Attempts : GraceTimer(t)
  \/ \E t \in Attempts, f \in Frames \cup FalsyFrames : Message(t, f)
  \/ \E c \in LoneCallIds, m \in Called : Request(c, m)
  \/ \E c \in LoneCallIds : SendNow(c)
  \/ \E c \in LoneCallIds : Timeout(c)

OutcomeSpec == Init /\ [][OutcomeNext]_vars

\* one transport that stays open and a handler of the application that calls
\* a request method while a message is dispatched
NestedNext ==
  \/ \E k \in CallerIds : Connect(k)
  \/ \E t \in Attempts : Open(t)
  \/ \E t \in Attempts : GraceTimer(t)
  \/ \E c \in LoneCallIds, m \in Called :
       \E type \in {ResponseType(m), "*"} : OnNested(type, c, m)
  \/ \E t \in Attempts, f \in Frames :              \* no handler calls
       Calling(calls, messageHandlers, f.data) = {} /\ Message(t, f)
  \/ \E t \in Attempts, f \in Frames, u \in Nested(messageHandlers) :
       NestedMessage(t, f, u)
  \/ \E c \in LoneCallIds, m \in Called : Request(c, m)
  \/ \E c \in LoneCallIds : SendNow(c)
  \/ \E c \in LoneCallIds : Timeout(c)

NestedSpec == Init /\ [][NestedNext]_vars

\* concurrent calls of request methods over transports that open and carry
\* messages, and an application that calls disconnect()
SharedNext ==
  \/ Disconnect
  \/ \E t \in Attempts : Open(t)
  \/ \E t \in Attempts : GraceTimer(t)
  \/ \E t \in Attempts, f \in Frames : Message(t, f)
  \/ \E c \in CallIds, m \in Called : Request(c, m)
  \/ \E c \in CallIds : SendNow(c)
  \/ \E c \in CallIds : Timeout(c)

SharedSpec == Init /\ [][SharedNext]_vars

\* the frames of a print that succeeds, and of a message for the application
SurviveFrames ==
  {f \in Frames : f.parses /\ f.data.type \in {"PRINT_SUCCESS", "OTHER"}
                            /\ f.data.error = Undefined}

\* one request and one handler of the application over transports that
\* fail, close and are replaced by the automatic reconnect
SurviveNext ==
  \/ Disconnect
  \/ \E t \in Attempts : Open(t)
  \/ \E t \in Attempts : GraceTimer(t)
  \/ \E t \in Attempts : Error(t)
  \/ \E t \in Attempts : Close(t)
  \/ ReconnectTimer
  \/ \E t \in Attempts, f \in SurviveFrames : Message(t, f)
  \/ \E h \in QuietHandlerIds :                               \* not registered twice
       UserHandler("OTHER", h) \notin messageHandlers /\ On("OTHER", h)
  \/ \E h \in QuietHandlerIds : Off("OTHER", h, "current")
  \/ \E c \in LoneCallIds : Request(c, "print")
  \/ \E c \in LoneCallIds : Timeout(c)

SurviveSpec == Init /\ [][SurviveNext]_vars

\* the closures that on() returns, called at any time: before and after
\* their registration has ended, before and after disconnect()
ClosureNext ==
  \/ \E k \in CallerIds : Connect(k)
  \/ Disconnect
  \/ \E t \in Attempts : Open(t)
  \/ \E t \in Attempts : GraceTimer(t)
  \/ \E type \in UserTypes, h \in QuietHandlerIds : On(type, h)
  \/ \E type \in UserTypes, h \in QuietHandlerIds, which \in Closures :
       Off(type, h, which)

ClosureSpec == Init /\ [][ClosureNext]_vars

\* the connection manager alone, under every configuration
RetryNext ==
  \/ \E k \in CallerIds : Connect(k)
  \/ Disconnect
  \/ \E t \in Attempts : Open(t)
  \/ \E t \in Attempts : GraceTimer(t)
  \/ \E t \in Attempts : Error(t)
  \/ \E t \in Attempts : Close(t)
  \/ ReconnectTimer

RetrySpec == InitWith(Configs) /\ [][RetryNext]_vars

\* one connect(), and a server no transport ever reaches
FailNext ==
  \/ \E k \in CallerIds : Connect(k)
  \/ \E t \in Attempts : Error(t)
  \/ \E t \in Attempts : Close(t)
  \/ ReconnectTimer

FailSpec == InitWith({c \in Configs : c.urlOk}) /\ [][FailNext]_vars

\* the request methods over transports that are never silent for ever: timers
\* fire, a queued resumption of send() runs, and a transport that is not open
\* gets its next event
LiveNext ==
  \/ \E k \in CallerIds : Connect(k)
  \/ Disconnect
  \/ \E t \in Attempts : Open(t)
  \/ \E t \in Attempts : GraceTimer(t)
  \/ \E t \in Attempts : Error(t)
  \/ \E t \in Attempts : Close(t)
  \/ ReconnectTimer
  \/ \E c \in LoneCallIds, m \in Called : Request(c, m)
  \/ \E c \in CallIds : SendNow(c)
  \/ \E c \in CallIds : Timeout(c)

TransportEvent(t) == ws[t] # "open" /\ (Open(t) \/ Error(t) \/ Close(t))

Fairness ==
  /\ \A t \in Attempts : WF_vars(GraceTimer(t))
  /\ \A t \in Attempts : WF_vars(TransportEvent(t))
  /\ WF_vars(ReconnectTimer)
  /\ \A c \in CallIds : WF_vars(SendNow(c))
  /\ \A c \in CallIds : WF_vars(Timeout(c))

LiveSpec == Init /\ [][LiveNext]_vars /\ Fairness

\* ================================================================== claims
Created == {t \in Attempts : ws[t] # "none"}
Pending == {a \in Attempts : promise[a] = "pending"}

\* C1: a connect() called while an attempt is unsettled creates no transport
\* and awaits that attempt, so that it settles with it
C1_JoinsAttempt ==
  [][\A k \in CallerIds :
       (Connect(k) /\ Pending # {})
         => /\ Created' = Created
            /\ callers'[k].st = "waiting"
            /\ callers'[k].att \in Pending]_vars

\* C2: at most one transport is connecting or open
C2_OneTransport ==
  Cardinality({t \in Attempts : ws[t] \in {"connecting", "open"}}) <= 1

\* C3: after disconnect(), and until the application calls connect() or a
\* request method, no transport is created
C3_ClosedIsTerminal ==
  [][(explicitlyClosed /\ explicitlyClosed') => Created' = Created]_vars

\* C4: while disconnect() is the application's last call, isConnected() is
\* false, and no handler that the disconnect() wiped has run since
C4_AfterDisconnect ==
  /\ explicitlyClosed => ~isConnected
  /\ fired \cap stale = {}

\* maxReconnectAttempts as the configuration gives it
ConfiguredMax ==
  IF config.maxReconnectAttempts.given THEN config.maxReconnectAttempts.n
  ELSE DEFAULT_MAX_RECONNECT_ATTEMPTS

\* the attempts made by reconnect timers, when the application called
\* connect() once and nothing else
AutomaticAttempts == IF Created = {} THEN 0 ELSE Cardinality(Created) - 1

\* C5: with a configured maximum of N and transports that all close without
\* opening, the automatic attempts made and scheduled never exceed N, and
\* once every transport has closed and no timer is left, exactly N were made
C5_ExactlyNReconnects ==
  /\ AutomaticAttempts + reconnectTimers <= ConfiguredMax
  /\ (/\ Created # {}
      /\ \A t \in Created : ws[t] = "closed"
      /\ reconnectTimers = 0) => AutomaticAttempts = ConfiguredMax

\* C6 (its first half): the retry counter stays between 0 and the configured
\* value, for every value the configuration may give
C6_CounterWithinConfigured == reconnectAttempts \in 0..ConfiguredMax

TimedOut(call) ==
  call.corr = "rejected" /\ call.val = TimeoutError(ResponseType(call.method))

OpenTransports == {t \in Attempts : ws[t] = "open"}

\* the frames whose message has type `type`
FramesOf(type) ==
  {[parses |-> TRUE, data |-> [type |-> type, payload |-> p, error |-> e]] :
     p \in Payloads, e \in ErrorFields}

\* the frames whose message has the success type of call c and no error field
Successes(c) == {f \in FramesOf(ResponseType(calls[c].method)) : f.data.error = Undefined}

\* the frames whose message has the success type or the error type of call c
OwnFrames(c) ==
  FramesOf(ResponseType(calls[c].method))
    \cup (IF ErrorType(calls[c].method) = Undefined THEN {}
          ELSE FramesOf(ErrorType(calls[c].method)))

\* C7: a correlation is settled at most once (resolve or reject runs once),
\* and what it settled with never changes afterwards
C7_SettlesOnce ==
  [][\A c \in CallIds :
       /\ calls'[c].settles <= 1
       /\ calls[c].corr \in {"resolved", "rejected"}
            => calls'[c].corr = calls[c].corr /\ calls'[c].val = calls[c].val]_vars

\* the error type rejected a call, and a transport is open on which a message
\* of the success type can still arrive
C7_Witness ==
  \E c \in CallIds :
    /\ calls[c].corr = "rejected" /\ calls[c].seenE /\ ~TimedOut(calls[c])
    /\ OpenTransports # {}

C10_EveryRequestSettles ==
  \A c \in CallIds :
    (calls[c].pc # "idle") ~> (calls[c].pc \in {"resolved", "rejected"})

\* the listeners call c has in the registry
ListenersOf(reg, c) == {h \in reg : h[2] \in {"succ", "err"} /\ h[3] = c}

\* the step rejects call c: its correlation, or the method while it sends
RejectedNow(c) ==
  \/ calls[c].corr = "pending" /\ calls'[c].corr = "rejected"
  \/ calls[c].pc \in {"sending", "sendNow"} /\ calls'[c].pc = "rejected"

\* C11: a step that rejects one call leaves the correlation of every other
\* call pending, with its timer and its listeners as they were
C11_ErrorRejectsOneCall ==
  [][\A c, d \in CallIds :
       (c # d /\ calls[d].corr = "pending" /\ RejectedNow(c))
         => /\ calls'[d].corr = "pending"
            /\ calls'[d].timer = calls[d].timer
            /\ ListenersOf(messageHandlers', d) = ListenersOf(messageHandlers, d)]_vars

\* the step puts the request frame of call c on a transport
SendsRequest(c) ==
  /\ calls[c].pc \in {"sending", "sendNow"}
  /\ calls'[c].pc \notin {"sending", "sendNow"}
  /\ \E t \in Attempts : RequestType(calls[c].method) \in sentFrames'[t]
  /\ calls'[c].res \notin {TransportError, NotConnectedError}

\* C12: when the request frame of a call is sent, waitForResponse has
\* registered the call's listeners: they are in the registry, unless the
\* correlation was settled or a disconnect() wiped them in between
C12_RegisteredBeforeSent ==
  [][\A c \in CallIds :
       (SendsRequest(c) /\ calls[c].corr = "pending" /\ ~calls[c].disc)
         => /\ SuccessHandler(c, calls[c].method) \in messageHandlers
            /\ ErrorType(calls[c].method) # Undefined
                 => ErrorHandler(c, calls[c].method) \in messageHandlers]_vars

\* a call waited for an implicit connect, its frame was sent, and it now
\* awaits the response with both listeners registered
C12_Witness ==
  \E c \in CallIds, t \in Attempts :
    /\ calls[c].pc = "awaiting" /\ calls[c].method = "print"
    /\ "PRINT_DATA" \in sentFrames[t] /\ "AUTH" \in sentFrames[t]
    /\ {SuccessHandler(c, "print"), ErrorHandler(c, "print")} \subseteq messageHandlers

\* a message reached the dispatcher while the application had handlers
Dispatched == delivery.type \notin {Undefined, Unparsed}

\* the registrations of the application that the last message matches
Matching == {h \in Users(messageHandlers) : h[1] \in {delivery.type, "*"}}

\* C13: a handler registered with on(type, h) runs exactly once for every
\* message whose type matches its registration (a registration under '*' and
\* a message of type '*' included) while it is registered, and never for a
\* message dispatched after its unsubscribe was called
C13_ExactlyOncePerMessage ==
  Dispatched =>
    \A h \in UserHandlers :
      delivery.runs[h] = IF h \in Matching THEN 1 ELSE 0

\* C14: every message that parses is delivered to every handler registered
\* under '*', whatever its type and whoever else is registered for it
C14_WildcardGetsEveryMessage ==
  Dispatched =>
    \A h \in Users(messageHandlers) : h[1] = "*" => delivery.runs[h] >= 1

\* C15: when a handler throws while a message is dispatched, every other
\* handler the message matches, of its type and of '*', still runs for it
C15_ThrowIsIsolated ==
  (Dispatched /\ \E g \in Matching : Throws(g) /\ delivery.runs[g] > 0)
    => \A h \in Matching : delivery.runs[h] >= 1

\* C16: a frame that fails to parse is dropped: it runs no handler, settles
\* no pending correlation, and leaves the transport handle, the attempt in
\* flight, the retry counter and the registry as they were
C16_UnparsedIsDropped ==
  [][(delivery'.type = Unparsed /\ delivery.type # Unparsed)
       => /\ \A h \in UserHandlers : delivery'.runs[h] = 0
          /\ UNCHANGED <<calls, fired, socket, connectionPromise, promise,
                         reconnectAttempts, reconnectTimers, messageHandlers>>]_vars

C16_Witness ==
  /\ delivery.type = Unparsed
  /\ socket # NoSocket
  /\ \E c \in CallIds :
       /\ calls[c].corr = "pending"
       /\ ListenersOf(messageHandlers, c) # {}
  /\ \E h \in Users(messageHandlers) : h[1] = "*"

\* the step is the error event of transport t
ErrorEvent(t) ==
  /\ ws[t] \in {"connecting", "open", "aborting"}
  /\ ws'[t] = "closing"
  /\ socket' = socket

\* the step is the close event of transport t
CloseEvent(t) == ws[t] # "closed" /\ ws'[t] = "closed"

\* C17: an error event of a transport rejects the connection attempt in
\* flight and leaves the retry counter and the reconnect timers alone; only
\* a close event schedules a reconnect
C17_ErrorRejectsAttempt ==
  [][/\ \A t \in Attempts :
          ErrorEvent(t) =>
            /\ connectionPromise # NoPromise /\ promise[connectionPromise] = "pending"
                 => promise'[connectionPromise] = "rejected"
            /\ promise[t] = "pending" => promise'[t] = "rejected"
            /\ \A k \in CallerIds :
                 callers[k].st = "waiting" /\ callers[k].att \in {t, connectionPromise}
                   => callers'[k].st = "rejected"
            /\ UNCHANGED <<reconnectAttempts, reconnectTimers>>
     /\ reconnectTimers' > reconnectTimers => \E t \in Attempts : CloseEvent(t)]_vars

\* the step is the open event of transport t
OpenEvent(t) == ws[t] = "connecting" /\ ws'[t] = "open"

\* C18: every open event of a transport sets the retry counter to zero and
\* transmits AUTH on that transport, before any other frame is transmitted on
\* it and before its connection attempt resolves
C18_AuthFirst ==
  [][\A t \in Attempts :
       /\ OpenEvent(t) => reconnectAttempts' = 0 /\ "AUTH" \in sentFrames'[t]
       /\ sentFrames'[t] # {} => "AUTH" \in sentFrames'[t]
       /\ promise'[t] = "resolved" /\ ws'[t] # "closed"
            => "AUTH" \in sentFrames'[t]]_vars

\* the step is a call of connect() by the application
ConnectCall(k) == callers[k].st = "idle" /\ callers'[k].st # "idle"

\* C19: connect() called while the transport is open resolves at once and
\* leaves the transport handle, the attempt in flight, the retry counter and
\* the registry as they were; it creates no transport and sends no frame
C19_ConnectWhenOpen ==
  [][\A k \in CallerIds :
       (isConnected /\ ConnectCall(k))
         => /\ callers'[k].st = "resolved"
            /\ UNCHANGED <<socket, connectionPromise, reconnectAttempts,
                           messageHandlers, ws, promise, sentFrames>>]_vars

\* connect() returned while the attempt of the open transport was pending
C19_Witness ==
  \E k \in CallerIds :
    /\ callers[k].st = "resolved"
    /\ isConnected /\ connectionPromise = socket /\ promise[socket] = "pending"
    /\ "AUTH" \in sentFrames[socket]
    /\ messageHandlers # {}

\* C20: disconnect() closes the transport it holds, clears the handle and
\* empties the registry; a second disconnect() right after it changes
\* nothing, and disconnect() without a transport is defined as well
C20_DisconnectIdempotent ==
  [][(~explicitlyClosed /\ explicitlyClosed')
       => /\ socket' = NoSocket
          /\ messageHandlers' = {}
          /\ socket # NoSocket => ws'[socket] \notin {"connecting", "open"}
          /\ \A t \in Attempts \ {socket} : ws'[t] = ws[t]
          /\ disconnect(socket', ws', messageHandlers')
               = [socket |-> socket', ws |-> ws', messageHandlers |-> messageHandlers']]_vars

\* disconnect() closed an open transport and wiped registered handlers
C20_Witness ==
  /\ explicitlyClosed
  /\ socket = NoSocket /\ messageHandlers = {}
  /\ stale # {}
  /\ \E t \in Attempts : ws[t] = "closing" /\ promise[t] = "resolved"

\* the step is a call of a request method as call c
RequestCall(c) == calls[c].pc = "idle" /\ calls'[c].pc # "idle"

\* the step puts no frame on any transport
NothingSent == \A t \in Attempts : sentFrames'[t] \subseteq sentFrames[t]

\* C21: a request method called while no transport is open starts or joins a
\* connection attempt and transmits only after that attempt resolved; frames
\* go only to the held transport while it is open; a call that finds it not
\* open after the attempt rejects with the not-connected error and sends nothing
C21_SendAwaitsReadiness ==
  [][/\ \A t \in Attempts :
          ~(sentFrames'[t] \subseteq sentFrames[t]) => socket' = t /\ ws'[t] = "open"
     /\ \A c \in CallIds :
          /\ (RequestCall(c) /\ ~isConnected)
               => /\ NothingSent
                  /\ connectionPromise' # NoPromise
                  /\ connectionPromise # NoPromise => connectionPromise' = connectionPromise
                  /\ \/ calls'[c].pc = "sending" /\ calls'[c].await = connectionPromise'
                     \/ /\ calls'[c].pc = "rejected"
                        /\ promise'[connectionPromise'] = "rejected"
          /\ (calls[c].pc = "sending" /\ calls'[c].pc # "sending")
               => /\ promise'[calls[c].await] \in {"resolved", "rejected"}
                  /\ promise'[calls[c].await] = "rejected"
                       => calls'[c].pc = "rejected" /\ calls'[c].res = TransportError
                  /\ (promise'[calls[c].await] = "resolved" /\ isConnected')
                       => RequestType(calls[c].method) \in sentFrames'[socket']
                  /\ (promise'[calls[c].await] = "resolved" /\ ~isConnected')
                       => /\ calls'[c].pc = "rejected"
                          /\ calls'[c].res = NotConnectedError
                          /\ NothingSent]_vars

\* a call whose attempt resolved found the transport not open
C21_Witness ==
  \E c \in CallIds :
    /\ calls[c].pc = "rejected" /\ calls[c].res = NotConnectedError
    /\ \E t \in Attempts : promise[t] = "resolved" /\ ws[t] = "closing"
    /\ \A t \in Attempts : RequestType(calls[c].method) \notin sentFrames[t]

\* the message has a top-level error field
HasError(msg) == msg.error # Undefined

\* the message's payload has a message field
HasMessage(msg) == PayloadMessage(msg.payload) # Undefined

\* the step settles the correlation of call c as C22 says message msg does
SettledAsClaimed(c, msg) ==
  IF msg.type = ResponseType(calls[c].method)
  THEN IF HasError(msg)
       THEN calls'[c].corr = "rejected" /\ calls'[c].val = msg.error
       ELSE calls'[c].corr = "resolved" /\ calls'[c].val = msg.payload
  ELSE /\ calls'[c].corr = "rejected"
       /\ calls'[c].val = IF HasMessage(msg) THEN PayloadMessage(msg.payload)
                          ELSE IF HasError(msg) THEN msg.error
                          ELSE "Operation failed"

\* C22: a message that settles a correlation settles it by its fields: of
\* the success type, with an error field it rejects with that error, without
\* one it resolves with the payload; of the error type it rejects with
\* payload.message if present, else the error field, else 'Operation failed'
C22_OutcomeFromMessage ==
  [][\A c \in CallIds :
       (calls[c].corr = "pending" /\ calls'[c].corr # "pending")
         => \A t \in OpenTransports, f \in Frames \cup FalsyFrames :
              (f.parses /\ Message(t, f)) => SettledAsClaimed(c, f.data)]_vars

\* the handlers of the application registered by two calls of on() under
\* the same type, with no unsubscribe or disconnect() in between
Twice == {u \in Users(messageHandlers) : subs.cur[u] >= 2}

\* C23: a handler registered twice under the same type runs once for every
\* matching message, and one call of a returned unsubscribe removes it from
\* that type
C23_OnIsIdempotent ==
  \A u \in Twice :
    /\ (Dispatched /\ u \in Matching) => delivery.runs[u] = 1
    /\ u \notin unsubscribe(messageHandlers, u)

\* the listeners of waitForResponse in the registry
Listeners(reg) == {h \in reg : h[2] \in {"succ", "err"}}

\* no call of a request method is outstanding: each has resolved or rejected
NoneOutstanding == \A c \in CallIds : calls[c].pc \in {"idle", "resolved", "rejected"}

\* C24: a settled correlation has neither listener in the registry and its
\* timer is not armed; once every call of a request method has settled, the
\* registry holds handlers of the application only
C24_SettledLeavesNothing ==
  /\ \A c \in CallIds :
       calls[c].corr \in {"resolved", "rejected"}
         => ListenersOf(messageHandlers, c) = {} /\ ~calls[c].timer
  /\ NoneOutstanding => Listeners(messageHandlers) = {}

\* C25: a listener registered while a message is dispatched does not run for
\* that message: no step both registers a correlation and settles it
C25_NotSettledByEarlierMessage ==
  [][\A c \in CallIds :
       calls[c].corr = "none" => calls'[c].corr \in {"none", "pending"}]_vars

\* the types of the messages that settle the correlation of call c
TypesOf(c) == {ResponseType(calls[c].method), ErrorType(calls[c].method)} \ {Undefined}

\* the step leaves the correlations of calls c and d settled alike
SettledAlike(c, d) ==
  /\ calls'[c].corr # "pending"
  /\ calls'[d].corr = calls'[c].corr
  /\ calls'[d].val = calls'[c].val

ReconnectStep == (\E t \in Attempts : Error(t) \/ Close(t)) \/ ReconnectTimer

\* what may take handler h out of the registry in a step: a closure that
\* on() returned, the settlement of the correlation h listens for, disconnect()
Removes(h) ==
  \/ h[2] = "user" /\ \E which \in Closures : Off(h[1], h[3], which)
  \/ /\ h[2] \in {"succ", "err"}
     /\ calls[h[3]].corr = "pending" /\ calls'[h[3]].corr # "pending"
  \/ Disconnect

\* the step ran handler h: a handler of the application ran, a listener
\* settled its correlation
Received(h) ==
  \/ h[2] = "user" /\ delivery'.runs[h] >= 1
  \/ h[2] \in {"succ", "err"} /\ calls'[h[3]].corr # "pending"

\* C27: transport error, transport close and the automatic reconnect leave
\* the registry as it is; a handler leaves the registry only by unsubscribe,
\* settlement or disconnect(); and every registered handler of a message's
\* type runs for it on whichever transport is open, a new one included
C27_RegistrySurvivesReconnect ==
  [][/\ ReconnectStep => messageHandlers' = messageHandlers
     /\ \A h \in messageHandlers \ messageHandlers' : Removes(h)
     /\ \A t \in OpenTransports, f \in SurviveFrames :
          Message(t, f) => \A h \in Invoked(messageHandlers, f.data) : Received(h)]_vars

\* the first transport has closed, and a message from its successor has run
\* a handler of the application while the correlation of a call is pending
C27_Witness ==
  /\ ws[1] = "closed" /\ ws[2] = "open" /\ socket = 2
  /\ \E u \in Users(messageHandlers) : delivery.runs[u] >= 1
  /\ \E c \in CallIds : ListenersOf(messageHandlers, c) # {}

\* C28: disconnect() leaves a pending correlation pending and its timer
\* armed; from then on no step settles it but its own timer, which rejects
\* it with the timeout error, whatever messages the transports deliver
C28_OnlyTimeoutAfterDisconnect ==
  [][\A c \in CallIds :
       /\ (calls[c].corr = "pending" /\ Disconnect)
            => calls'[c].corr = "pending" /\ calls'[c].timer /\ calls'[c].disc
       /\ calls[c].disc
            => \/ calls'[c].corr = "pending" /\ calls'[c].timer
               \/ Timeout(c) /\ TimedOut(calls'[c])]_vars

\* a message of the success type of a call was dispatched after the
\* disconnect() that found its correlation pending, and left it pending
C28_Witness ==
  \E c \in CallIds :
    calls[c].disc /\ calls[c].seenS /\ calls[c].corr = "pending" /\ OpenTransports # {}

\* C29: a closure of a registration that has ended (by an unsubscribe, or by
\* disconnect()) leaves a later registration of the same handler under the
\* same type in the registry
C29_ClosureOfItsOwnRegistration ==
  [][\A type \in UserTypes, h \in HandlerIds :
       (subs.old[UserHandler(type, h)] /\ subs.cur[UserHandler(type, h)] > 0
          /\ Off(type, h, "old"))
         => UserHandler(type, h) \in messageHandlers']_vars

\* C30: every promise that connect() returned eventually resolves or
\* rejects, when every transport goes on to open, fail or close
C30_EveryConnectSettles ==
  \A k \in CallerIds :
    (callers[k].st = "waiting") ~> (callers[k].st \in {"resolved", "rejected"})

====
